---- MODULE Spec2Model ----
(***************************************************************************)
(* Eco-Score Web API: POST /api/analyze in its three implementations       *)
(*   "index"   src/api/index.js      (express app, node-cache)             *)
(*   "analyze" src/api/analyze.js    (serverless handler, Map + timestamp) *)
(*   "part000" src/unnamed/part_000  (express app, node-cache, href key)   *)
(*                                                                         *)
(* Units.  Time is counted in half days, so 24 h is 2.  Byte counts are    *)
(* plain integers.  gramsCO2PerView is kept in hundredths of a gram (the   *)
(* value after toFixed(2)); scores are computed in hundredths of a point   *)
(* and rounded as Math.round does.  bytes / 2^20 / 2 (or / 4) is exact in *)
(* binary floating point, and for every two-decimal co2 in 0.00 .. 20.00   *)
(* the double arithmetic of the score functions gives the same integer as  *)
(* the exact arithmetic used here.  The equivalence figures (treesPlanted, *)
(* kettlesBoiled, kmDriven) are a function of (bytes, isGreen) that no     *)
(* decision reads; they are left out of the result record.                 *)
(***************************************************************************)
EXTENDS Integers, Sequences, FiniteSets, TLC

VARIABLES variant, now, cache, mapCache, reqs, resp, calc

vars == <<variant, now, cache, mapCache, reqs, resp, calc>>

Variants == {"index", "analyze", "part000"}

\* ---------------------------------------------------------------- bounds
MaxTime == 3
MaxRequests == 2
MaxKiB == 4200
MaxCo2 == 420

\* ------------------------------------------------------------- constants
MiB == 1024 * 1024
\* stdTTL: 86400 s, in half days
stdTTL == 2
\* CACHE_DURATION = 24 * 60 * 60 * 1000 ms, in half days
CACHE_DURATION == 2
CLEANER_THAN_PERCENTAGE_DEFAULT == 50
\* return 2 * 1024 * 1024; // 2MB par defaut
DefaultWeight == 2 * MiB

Min(a, b) == IF a <= b THEN a ELSE b
Max(a, b) == IF a >= b THEN a ELSE b

\* ------------------------------------------------------------------ URLs
\* A request's url is <<scheme, host, path>>: the string scheme://host path.
\* An empty scheme is a string with no scheme; <<"","","">> is a missing url.
NoUrl == <<"", "", "">>
NotAUrl == <<"", "not a url", "">>
\* "http://": a scheme and no host
NoHostUrl == <<"http", "", "">>
ValidUrls == { <<"http", "a.com", "/">>, <<"HTTP", "A.COM", "">> }
BodyUrls == ValidUrls \cup {NoUrl, NotAUrl, NoHostUrl}

\* !url
Falsy(url) == url = NoUrl

\* a parser that accepts any string with a scheme
URLthrows_schemeOnly(url) == url[1] = ""

\* new URL(url) throws on a string without scheme or host
URLthrows(url) == url[1] = "" \/ url[2] = ""

\* WHATWG URL serialisation lower-cases scheme and host
Lower(s) == CASE s = "HTTP" -> "http" [] s = "A.COM" -> "a.com" [] OTHER -> s

\* validUrl.href: scheme and host in lower case, an empty path becomes "/"
href(url) == << Lower(url[1]), Lower(url[2]), IF url[3] = "" THEN "/" ELSE url[3] >>

\* new URL(url).hostname
hostname(url) == Lower(url[2])

CacheKeys == BodyUrls \cup { href(u) : u \in BodyUrls }

\* const cacheKey = `analysis_${url}` (index.js, analyze.js)
cacheKeyRaw(url) == url

\* const cleanUrl = validUrl.href; const cacheKey = `analysis_${cleanUrl}`
cacheKeyClean(url) == href(url)

cacheKeyOf(v, url) == IF v = "part000" THEN cacheKeyClean(url) ELSE cacheKeyRaw(url)

\* the url handed to analyzeSite: cleanUrl in part_000, the body's url otherwise
analysisUrl(v, url) == IF v = "part000" THEN href(url) ELSE url

\* ------------------------------------------------- external call outcomes
\* Green Web Foundation lookup: a failure, a response without data, or a
\* response whose data has green = true / false / undefined.
HostingReplies ==
  { [ok |-> FALSE, hasData |-> FALSE, green |-> "undefined", hostedby |-> ""],
    [ok |-> TRUE, hasData |-> FALSE, green |-> "undefined", hostedby |-> ""],
    [ok |-> TRUE, hasData |-> TRUE, green |-> "undefined", hostedby |-> ""],
    [ok |-> TRUE, hasData |-> TRUE, green |-> "false", hostedby |-> ""],
    [ok |-> TRUE, hasData |-> TRUE, green |-> "true", hostedby |-> "GreenHost"] }

PageSizes == { MiB }

\* HEAD: a failure, a response without content-length (length -1), or a length
HeadReplies == { [ok |-> FALSE, length |-> -1], [ok |-> TRUE, length |-> -1] }
                 \cup { [ok |-> TRUE, length |-> b] : b \in PageSizes }

\* GET: a failure, or a body of some length
GetReplies == { [ok |-> FALSE, length |-> -1] } \cup { [ok |-> TRUE, length |-> b] : b \in PageSizes }

\* -------------------------------------------------------- checkGreenHosting
\* a checker that takes every answer but green = false for a green verdict
checkGreenHosting_greenByDefault(r) ==
  IF ~r.ok
    THEN [isGreen |-> FALSE, hostedBy |-> "Erreur de verification"]
    ELSE [isGreen |-> (r.green # "false"),
          hostedBy |-> IF r.hostedby # "" THEN r.hostedby ELSE "Inconnu"]

checkGreenHosting(r) ==
  IF ~r.ok
    THEN [isGreen |-> FALSE, hostedBy |-> "Erreur de verification"]
    ELSE IF r.hasData /\ r.green # "undefined"
      THEN [isGreen |-> (r.green = "true"),
            hostedBy |-> IF r.hostedby # "" THEN r.hostedby ELSE "Inconnu"]
      ELSE [isGreen |-> FALSE, hostedBy |-> "Inconnu"]

checkGreenHosting_analyze(r) ==
  IF ~r.ok \/ ~r.hasData
    THEN [isGreen |-> FALSE, hostedBy |-> "Inconnu"]
    ELSE [isGreen |-> (r.green = "true"),
          hostedBy |-> IF r.hostedby # "" THEN r.hostedby ELSE "Inconnu"]

hostingOf(v, r) == IF v = "analyze" THEN checkGreenHosting_analyze(r) ELSE checkGreenHosting(r)

\* ---------------------------------------------------------- calculateCarbon
\* (num/den).toFixed(2) in hundredths: the n closest to 100*num/den, the larger on a tie
toFixed2(num, den) == (200 * num + den) \div (2 * den)

\* a calculator that forgets the green discount
gramsDen_noDiscount(isGreen) == MiB * 2

\* gramsCO2 = bytes / (1024*1024) * 0.5, halved again when isGreen
gramsDen(isGreen) == IF isGreen THEN MiB * 2 * 2 ELSE MiB * 2

calculateCarbon(bytes, isGreen) ==
  [gramsCO2PerView |-> toFixed2(bytes, gramsDen(isGreen)),
   cleanerThan |-> CLEANER_THAN_PERCENTAGE_DEFAULT]

\* analyze.js: no cleanerThan field (0 stands for the absent field)
calculateCarbon_analyze(bytes, isGreen) ==
  [gramsCO2PerView |-> toFixed2(bytes, gramsDen(isGreen)), cleanerThan |-> 0]

carbonOf(v, bytes, isGreen) ==
  IF v = "analyze" THEN calculateCarbon_analyze(bytes, isGreen) ELSE calculateCarbon(bytes, isGreen)

\* ------------------------------------------------------------ score engine
\* Math.floor in place of Math.round
MathRound_floor(s100) == s100 \div 100

\* Math.round of s100 hundredths
MathRound(s100) == (s100 + 50) \div 100

rankingOf(score) ==
  IF score >= 90 THEN "A" ELSE IF score >= 75 THEN "B" ELSE IF score >= 60 THEN "C"
  ELSE IF score >= 45 THEN "D" ELSE IF score >= 30 THEN "E" ELSE "F"

\* the penalty of index.js / part_000, in hundredths of a point
co2Penalty(co2) ==
  IF co2 <= 50 THEN co2 * 20
  ELSE IF co2 <= 100 THEN 1000 + (co2 - 50) * 40
  ELSE IF co2 <= 200 THEN 3000 + (co2 - 100) * 15
  ELSE 4500 + Min((co2 - 200) * 5, 500)

\* a score engine that rounds and does not clamp
calculateEcoScore_noClamp(carbonData, hostingData) ==
  LET co2 == carbonData.gramsCO2PerView
      s1 == 10000 - co2Penalty(co2)
      s2 == IF hostingData.isGreen THEN s1 + 1000 ELSE s1
      s3 == IF carbonData.cleanerThan # 0 THEN s2 + carbonData.cleanerThan * 5 ELSE s2
      score == MathRound(s3)
  IN [ecoScore |-> score, ranking |-> rankingOf(score)]

calculateEcoScore(carbonData, hostingData) ==
  LET co2 == carbonData.gramsCO2PerView
      s1 == 10000 - co2Penalty(co2)
      s2 == IF hostingData.isGreen THEN s1 + 1000 ELSE s1
      s3 == IF carbonData.cleanerThan # 0 THEN s2 + carbonData.cleanerThan * 5 ELSE s2
      score == Max(0, Min(100, MathRound(s3)))
  IN [ecoScore |-> score, ranking |-> rankingOf(score)]

\* the penalty of analyze.js: a flat 50 above 2 g
co2Penalty_analyze(co2) ==
  IF co2 <= 50 THEN co2 * 20
  ELSE IF co2 <= 100 THEN 1000 + (co2 - 50) * 40
  ELSE IF co2 <= 200 THEN 3000 + (co2 - 100) * 15
  ELSE 5000

calculateScore(carbonData, hostingData) ==
  LET co2 == carbonData.gramsCO2PerView
      s1 == 10000 - co2Penalty_analyze(co2)
      s2 == IF hostingData.isGreen THEN s1 + 1000 ELSE s1
      score == Max(0, Min(100, MathRound(s2)))
  IN [ecoScore |-> score, ranking |-> rankingOf(score)]

scoreOf(v, carbonData, hostingData) ==
  IF v = "analyze" THEN calculateScore(carbonData, hostingData)
  ELSE calculateEcoScore(carbonData, hostingData)

\* ------------------------------------------------------------- analyzeSite
\* the result assembled once hosting and page weight are known
analyzeSite(v, url, hostingData, pageWeight, t) ==
  LET carbonData == carbonOf(v, pageWeight, hostingData.isGreen)
      scoreData == scoreOf(v, carbonData, hostingData)
  IN [url |-> url,
      ecoScore |-> scoreData.ecoScore,
      ranking |-> scoreData.ranking,
      hosting |-> hostingData,
      carbon |-> carbonData,
      pageWeight |-> pageWeight,
      lastAnalyzed |-> t]

\* ------------------------------------------------------------------ caches
\* node-cache (index.js, part_000): a key holds <<>> or <<[v, t]>>, t the
\* time the entry expires: set stores t = now + stdTTL, and get treats an
\* entry as expired, and deletes it, when t < now.
NodeCacheExpired(c, key, t) == c[key] # <<>> /\ c[key][1].t < t

NodeCacheGet(c, key, t) ==
  IF c[key] # <<>> /\ ~NodeCacheExpired(c, key, t) THEN << c[key][1].v >> ELSE <<>>

NodeCacheAfterGet(c, key, t) ==
  IF NodeCacheExpired(c, key, t) THEN [c EXCEPT ![key] = <<>>] ELSE c

NodeCacheSet(c, key, value, t) == [c EXCEPT ![key] = << [v |-> value, t |-> t + stdTTL] >>]

\* analyze.js: a Map of {data, timestamp}, an entry is used while
\* Date.now() - cached.timestamp < CACHE_DURATION
MapFresh(c, key, t) == c[key] # <<>> /\ t - c[key][1].timestamp < CACHE_DURATION

MapGet(c, key, t) == IF MapFresh(c, key, t) THEN << c[key][1].data >> ELSE <<>>

MapSet(c, key, value, t) == [c EXCEPT ![key] = << [data |-> value, timestamp |-> t] >>]

\* what cache.get(cacheKey) hands to the handler
cacheLookup(v, key, t) ==
  IF v = "analyze" THEN MapGet(mapCache, key, t) ELSE NodeCacheGet(cache, key, t)

\* the time the entry under key was stored, -1 when there is none
storedAtOf(v, key) ==
  IF v = "analyze"
    THEN IF mapCache[key] = <<>> THEN -1 ELSE mapCache[key][1].timestamp
    ELSE IF cache[key] = <<>> THEN -1 ELSE cache[key][1].t - stdTTL

\* the stored result under key, <<>> when there is none
storedDataOf(v, key) ==
  IF v = "analyze"
    THEN IF mapCache[key] = <<>> THEN <<>> ELSE << mapCache[key][1].data >>
    ELSE IF cache[key] = <<>> THEN <<>> ELSE << cache[key][1].v >>

\* ---------------------------------------------------------------- requests
NoHosting == [isGreen |-> FALSE, hostedBy |-> ""]

\* reqs holds the requests in flight; a request that has been answered leaves
\* its slot closed and its record, response included, in resp (the last
\* response sent).
\* A request: the handler's position (pc), what it was sent, what it has
\* computed, the external calls it has issued, and its response.  lookup,
\* head, get, read, stored, live, age and stale record what happened:
\*   lookup      the outcome of the hosting lookup: "verdict" (green is true
\*               or false), "degraded" (network error, timeout, no data, or
\*               green undefined)
\*   head        the outcome of the probe: "length" (answered with a content
\*               length), "fallback" (failed, or answered without one)
\*   get         the outcome of the full fetch: "ok", "failed"
\*   stored      cache.set was called
\*   read        cache.get was called
\*   live        at the cache read, some key with the same normalized URL
\*               held a result stored less than 24 h before
\*   same        the result a hit returned is one of those
\*   age         the age of the entry a hit returned, -1 without a hit
\*   stale       the key held an entry stored 24 h or more before the read
Idle ==
  [pc |-> "idle", method |-> "", url |-> NoUrl, key |-> NoUrl, target |-> NoUrl,
   hosting |-> NoHosting,
   calls |-> [hosting |-> 0, head |-> 0, get |-> 0],
   lookup |-> "none", head |-> "none", get |-> "none", stored |-> FALSE,
   status |-> 0, kind |-> "", cached |-> FALSE, data |-> <<>>,
   read |-> FALSE, live |-> FALSE, same |-> FALSE, age |-> -1, stale |-> FALSE]

Closed == [Idle EXCEPT !.pc = "closed"]

Slots == 1 .. MaxRequests

CanReceive(i) == reqs[i].pc = "idle" /\ (IF i = 1 THEN TRUE ELSE reqs[i - 1].pc # "idle")

Methods(v) == IF v = "analyze" THEN {"POST", "OPTIONS", "GET"} ELSE {"POST"}

liveResults(v, url, t) ==
  { storedDataOf(v, k)[1] : k \in { k \in CacheKeys : /\ storedDataOf(v, k) # <<>>
                                                     /\ href(k) = href(url)
                                                     /\ t - storedAtOf(v, k) < CACHE_DURATION } }

respond(r, status, kind) == [r EXCEPT !.pc = "done", !.status = status, !.kind = kind]

\* res.json(...) / res.end(): the handler of slot i is over
Answer(i, r) ==
  /\ reqs' = [reqs EXCEPT ![i] = Closed]
  /\ resp' = r

\* analyze.js: OPTIONS ends with 200, any other method but POST with 405;
\* the body is not read
ReceiveNotPost(i, m) ==
  /\ CanReceive(i)
  /\ variant = "analyze"
  /\ m \in Methods(variant) \ {"POST"}
  /\ Answer(i, IF m = "OPTIONS"
                 THEN respond([Idle EXCEPT !.method = m], 200, "end")
                 ELSE respond([Idle EXCEPT !.method = m], 405, "error"))
  /\ UNCHANGED <<variant, now, cache, mapCache, calc>>

\* url missing, or new URL(url) throws: 400
ReceiveInvalid(i, url) ==
  /\ CanReceive(i)
  /\ Falsy(url) \/ URLthrows(url)
  /\ Answer(i, respond([Idle EXCEPT !.method = "POST", !.url = url], 400, "error"))
  /\ UNCHANGED <<variant, now, cache, mapCache, calc>>

received(v, url, t) ==
  LET key == cacheKeyOf(v, url)
  IN [Idle EXCEPT !.method = "POST", !.url = url, !.key = key,
                  !.target = analysisUrl(v, url),
                  !.read = TRUE,
                  !.live = (liveResults(v, url, t) # {}),
                  !.stale = (storedAtOf(v, key) >= 0 /\ t - storedAtOf(v, key) >= CACHE_DURATION)]

\* a valid url whose key the cache answers: 200, cached: true
ReceiveHit(i, url) ==
  /\ CanReceive(i)
  /\ ~Falsy(url) /\ ~URLthrows(url)
  /\ LET key == cacheKeyOf(variant, url)
         got == cacheLookup(variant, key, now)
     IN /\ got # <<>>
        /\ Answer(i, respond([received(variant, url, now) EXCEPT
                                 !.cached = TRUE, !.data = got,
                                 !.same = (got[1] \in liveResults(variant, url, now)),
                                 !.age = now - storedAtOf(variant, key)], 200, "success"))
  /\ UNCHANGED <<variant, now, cache, mapCache, calc>>

\* a valid url the cache does not answer: analyzeSite starts, the hosting
\* lookup is issued; node-cache drops the entry it found expired
ReceiveMiss(i, url) ==
  /\ CanReceive(i)
  /\ ~Falsy(url) /\ ~URLthrows(url)
  /\ LET key == cacheKeyOf(variant, url)
     IN /\ cacheLookup(variant, key, now) = <<>>
        /\ reqs' = [reqs EXCEPT ![i] =
              [received(variant, url, now) EXCEPT !.pc = "hosting", !.calls.hosting = 1]]
        /\ cache' = IF variant = "analyze" THEN cache ELSE NodeCacheAfterGet(cache, key, now)
  /\ UNCHANGED <<variant, now, mapCache, resp, calc>>

lookupOutcome(r) == IF r.ok /\ r.hasData /\ r.green # "undefined" THEN "verdict" ELSE "degraded"

\* the hosting lookup returns or fails; the weight estimator starts
HostingReply(i, r) ==
  /\ reqs[i].pc = "hosting"
  /\ reqs' = [reqs EXCEPT ![i] =
        IF variant = "analyze"
          THEN [@ EXCEPT !.hosting = hostingOf(variant, r), !.lookup = lookupOutcome(r),
                         !.pc = "get", !.calls.get = @ + 1]
          ELSE [@ EXCEPT !.hosting = hostingOf(variant, r), !.lookup = lookupOutcome(r),
                         !.pc = "head", !.calls.head = @ + 1]]
  /\ UNCHANGED <<variant, now, cache, mapCache, resp, calc>>

\* the page weight is known: carbon, score, result, cache.set, 200
finished(r, pageWeight, t) ==
  respond([r EXCEPT !.data = << analyzeSite(variant, r.target, r.hosting, pageWeight, t) >>,
                    !.cached = FALSE, !.stored = TRUE], 200, "success")

Stored(i, r, pageWeight) ==
  /\ Answer(i, finished(r, pageWeight, now))
  /\ IF variant = "analyze"
       THEN /\ mapCache' = MapSet(mapCache, r.key, finished(r, pageWeight, now).data[1], now)
            /\ cache' = cache
       ELSE /\ cache' = NodeCacheSet(cache, r.key, finished(r, pageWeight, now).data[1], now)
            /\ mapCache' = mapCache

\* HEAD answers with a content-length: that is the weight
HeadLength(i, r) ==
  /\ reqs[i].pc = "head"
  /\ r.ok /\ r.length >= 0
  /\ Stored(i, [reqs[i] EXCEPT !.head = "length"], r.length)
  /\ UNCHANGED <<variant, now, calc>>

\* HEAD fails or has no content-length: the full fetch is issued
HeadFallback(i, r) ==
  /\ reqs[i].pc = "head"
  /\ ~(r.ok /\ r.length >= 0)
  /\ reqs' = [reqs EXCEPT ![i] =
        [@ EXCEPT !.head = "fallback", !.pc = "get", !.calls.get = @ + 1]]
  /\ UNCHANGED <<variant, now, cache, mapCache, resp, calc>>

\* GET succeeds: the weight is the body's byte length
GetBody(i, r) ==
  /\ reqs[i].pc = "get"
  /\ r.ok
  /\ Stored(i, [reqs[i] EXCEPT !.get = "ok"], r.length)
  /\ UNCHANGED <<variant, now, calc>>

\* GET fails in index.js and analyze.js: return 2 * 1024 * 1024
calculatePageWeightDefault(v) == v \in {"index", "analyze"}

GetFailedDefault(i, r) ==
  /\ reqs[i].pc = "get"
  /\ ~r.ok
  /\ calculatePageWeightDefault(variant)
  /\ Stored(i, [reqs[i] EXCEPT !.get = "failed"], DefaultWeight)
  /\ UNCHANGED <<variant, now, calc>>

\* GET fails in part_000: throw, caught by the route: 500, nothing stored
GetFailedThrow(i, r) ==
  /\ reqs[i].pc = "get"
  /\ ~r.ok
  /\ ~calculatePageWeightDefault(variant)
  /\ Answer(i, respond([reqs[i] EXCEPT !.get = "failed"], 500, "error"))
  /\ UNCHANGED <<variant, now, cache, mapCache, calc>>

\* node-cache's periodic check deletes the entries it finds expired
CheckData ==
  /\ variant # "analyze"
  /\ \E k \in CacheKeys : NodeCacheExpired(cache, k, now)
  /\ cache' = [k \in CacheKeys |-> IF NodeCacheExpired(cache, k, now) THEN <<>> ELSE cache[k]]
  /\ UNCHANGED <<variant, now, mapCache, reqs, resp, calc>>

\* time passes
Tick ==
  /\ now < MaxTime
  /\ now' = now + 1
  /\ UNCHANGED <<variant, cache, mapCache, reqs, resp, calc>>

\* ------------------------------------------------ the pure functions alone
\* calc holds the last application of the carbon calculator or score engine:
\*   fn "carbon"    calculateCarbon(bytes, false) and calculateCarbon(bytes, true)
\*   fn "score"     the score function on gramsCO2PerView = co2 and isGreen
\*   fn "pipeline"  calculateCarbon(bytes, isGreen), then the score function
\* co2, carbon, carbonGreen are hundredths of a gram; penalty is hundredths
\* of a point.  One application is made from the idle record.
CalcIdle == [fn |-> "none", bytes |-> 0, isGreen |-> FALSE, co2 |-> 0, carbon |-> 0, carbonGreen |-> 0,
             penalty |-> 0, ecoScore |-> 0, ranking |-> ""]

ByteCounts == { k * 1024 : k \in 0 .. MaxKiB }

penaltyOf(v, co2) == IF v = "analyze" THEN co2Penalty_analyze(co2) ELSE co2Penalty(co2)

ApplyCarbon ==
  /\ calc.fn = "none"
  /\ \E bytes \in ByteCounts :
        calc' = [CalcIdle EXCEPT !.fn = "carbon", !.bytes = bytes,
                   !.carbon = carbonOf(variant, bytes, FALSE).gramsCO2PerView,
                   !.carbonGreen = carbonOf(variant, bytes, TRUE).gramsCO2PerView]
  /\ UNCHANGED <<variant, now, cache, mapCache, reqs, resp>>

ApplyScore ==
  /\ calc.fn = "none"
  /\ \E co2 \in 0 .. MaxCo2, isGreen \in BOOLEAN :
        LET carbonData == [carbonOf(variant, 0, isGreen) EXCEPT !.gramsCO2PerView = co2]
            scoreData == scoreOf(variant, carbonData, [isGreen |-> isGreen, hostedBy |-> "Inconnu"])
        IN calc' = [CalcIdle EXCEPT !.fn = "score", !.co2 = co2, !.isGreen = isGreen,
                       !.penalty = penaltyOf(variant, co2),
                       !.ecoScore = scoreData.ecoScore, !.ranking = scoreData.ranking]
  /\ UNCHANGED <<variant, now, cache, mapCache, reqs, resp>>

ApplyPipeline ==
  /\ calc.fn = "none"
  /\ \E bytes \in ByteCounts, isGreen \in BOOLEAN :
        LET result == analyzeSite(variant, NoUrl, [isGreen |-> isGreen, hostedBy |-> "Inconnu"], bytes, now)
        IN calc' = [CalcIdle EXCEPT !.fn = "pipeline", !.bytes = bytes, !.isGreen = isGreen,
                       !.co2 = result.carbon.gramsCO2PerView,
                       !.penalty = penaltyOf(variant, result.carbon.gramsCO2PerView),
                       !.ecoScore = result.ecoScore, !.ranking = result.ranking]
  /\ UNCHANGED <<variant, now, cache, mapCache, reqs, resp>>

NextCalc == ApplyCarbon \/ ApplyScore \/ ApplyPipeline

Init ==
  /\ variant \in Variants
  /\ now = 0
  /\ cache = [k \in CacheKeys |-> <<>>]
  /\ mapCache = [k \in CacheKeys |-> <<>>]
  /\ reqs = [i \in Slots |-> Idle]
  /\ resp = Idle
  /\ calc = CalcIdle

Next ==
  \/ \E i \in Slots, m \in {"OPTIONS", "GET"} : ReceiveNotPost(i, m)
  \/ \E i \in Slots, url \in BodyUrls :
        \/ ReceiveInvalid(i, url)
        \/ ReceiveHit(i, url)
        \/ ReceiveMiss(i, url)
  \/ \E i \in Slots, r \in HostingReplies : HostingReply(i, r)
  \/ \E i \in Slots, r \in HeadReplies : HeadLength(i, r) \/ HeadFallback(i, r)
  \/ \E i \in Slots, r \in GetReplies : GetBody(i, r) \/ GetFailedDefault(i, r) \/ GetFailedThrow(i, r)
  \/ CheckData
  \/ Tick

Spec == Init /\ [][Next]_vars

SpecCalc == Init /\ [][NextCalc]_vars

\* ================================================================= claims
Abs(x) == IF x < 0 THEN -x ELSE x

\* the POST requests in flight, and the last one answered
Sent == { r \in { reqs[i] : i \in Slots } \cup {resp} : r.method = "POST" }

NoCalls(r) == r.calls.hosting = 0 /\ r.calls.head = 0 /\ r.calls.get = 0

\* C1: a request whose probe failed (or gave no content length) and whose
\* full fetch failed too ends with a 500 error, carries no result (no success
\* on a substituted 2 MiB weight), and has written nothing to the cache.
C1_FatalOnTotalFailure ==
  \A r \in Sent :
       (r.head = "fallback" /\ r.get = "failed")
         => /\ r.pc = "done"
            /\ r.status = 500
            /\ r.kind = "error"
            /\ r.data = <<>>
            /\ ~r.stored

\* C2: a request for a normalized URL of which a result was stored less than
\* 24 h before is answered at once with cached: true and that stored result
\* (lastAnalyzed included), with no hosting lookup and no weight fetch; the
\* response of the request that stored a result has cached: false.
C2_SecondIsCached ==
  \A r \in Sent :
       /\ (r.read /\ r.live)
            => /\ r.pc = "done"
               /\ r.status = 200
               /\ r.kind = "success"
               /\ r.cached
               /\ r.same
               /\ NoCalls(r)
       /\ (r.stored => r.status = 200 /\ ~r.cached)

\* C3: a hit returns only an entry stored less than 24 h before the read; a
\* read that finds an entry stored 24 h or more before is no hit, runs a
\* fresh analysis, and on success the entry under the key is a whole new one:
\* the new result with its own storing time.
C3_ExpiresAtTTL ==
  \A r \in Sent :
       /\ r.cached => (r.age >= 0 /\ r.age < CACHE_DURATION)
       /\ r.stale => /\ ~r.cached
                     /\ r.calls.hosting = 1
                     /\ (r.stored /\ storedDataOf(variant, r.key) # <<>>)
                           => /\ storedAtOf(variant, r.key) >= r.data[1].lastAnalyzed
                              /\ storedDataOf(variant, r.key)[1].lastAnalyzed = storedAtOf(variant, r.key)

\* C4: the cache key of a request is the normalized form of its URL, so two
\* URL strings with the same normalized form use the same key.
C4_KeyIsNormalized ==
  \A r \in Sent :
    r.read => r.key = href(r.url)

\* C5: a POST without url, or with a url that does not parse, is answered
\* 400 with status "error"; analyzeSite is not invoked, no external call is
\* issued, the cache is not read and not written.
C5_InvalidInput ==
  \A r \in Sent :
       (Falsy(r.url) \/ r.url \in {NotAUrl, NoHostUrl})
         => /\ r.pc = "done"
            /\ r.status = 400
            /\ r.kind = "error"
            /\ NoCalls(r)
            /\ ~r.read
            /\ ~r.stored
            /\ r.data = <<>>

C5_Witness ==
  resp.method = "POST" /\ resp.url = NotAUrl /\ resp.status = 400

\* the headline figure of w bytes without the green discount, in hundredths
C6_Undiscounted(w) == (100 * w + MiB) \div (2 * MiB)

\* C6: a failed hosting lookup (network error, timeout, no green verdict)
\* does not abort the analysis: the descriptor has isGreen = false, the
\* weight estimator is run, and when it succeeds the response is a success
\* with hosting.isGreen = false and a carbon figure without green discount.
C6_LookupFailureNonFatal ==
  \A r \in Sent :
       r.lookup = "degraded"
         => /\ r.hosting.isGreen = FALSE
            /\ r.calls.head + r.calls.get >= 1
            /\ (r.head = "length" \/ r.get = "ok")
                 => /\ r.pc = "done"
                    /\ r.status = 200
                    /\ r.kind = "success"
                    /\ r.data # <<>>
                    /\ r.data[1].hosting.isGreen = FALSE
                    /\ r.data[1].carbon.gramsCO2PerView = C6_Undiscounted(r.data[1].pageWeight)

C6_Witness ==
  /\ resp.lookup = "degraded"
  /\ resp.hosting.hostedBy = "Erreur de verification"
  /\ resp.get = "ok"
  /\ resp.status = 200
  /\ resp.data # <<>>
  /\ resp.data[1].hosting.isGreen = FALSE

\* the band of a score: A for >= 90, B for >= 75, C for >= 60, D for >= 45,
\* E for >= 30, F below
C7_Band(s) ==
  LET floors == << <<90, "A">>, <<75, "B">>, <<60, "C">>, <<45, "D">>, <<30, "E">> >>
      reached == { k \in 1 .. 5 : s >= floors[k][1] }
  IN IF reached = {} THEN "F"
     ELSE floors[CHOOSE k \in reached : \A j \in reached : k <= j][2]

\* a ranking as a grade: F is 0, A is 5
C7_Grade(letter) ==
  CASE letter = "A" -> 5 [] letter = "B" -> 4 [] letter = "C" -> 3
    [] letter = "D" -> 2 [] letter = "E" -> 1 [] letter = "F" -> 0

C8_ExactHalf ==
  calc.fn = "carbon" => 2 * calc.carbonGreen = calc.carbon

\* C8, amended: the green headline figure is half of the unrounded non-green
\* figure, bytes / 2^21 g, rounded to 2 decimals: it lies within 0.005 g of
\* bytes / 2^22 g, and twice it differs from the non-green headline figure by
\* at most 0.01 g.
C8_HalfBeforeRounding ==
  calc.fn = "carbon"
    => /\ 2 * Abs(calc.carbonGreen * (4 * MiB) - 100 * calc.bytes) <= 4 * MiB
       /\ Abs(2 * calc.carbonGreen - calc.carbon) <= 1

C8_Witness ==
  calc.fn = "carbon" /\ calc.bytes > 0 /\ 2 * calc.carbonGreen # calc.carbon

\* C9 as stated: 1 MiB, non-green: 0.50 g, penalty 10, ecoScore 90, ranking A.
C9_Score90 ==
  (calc.fn = "pipeline" /\ calc.bytes = MiB /\ ~calc.isGreen)
    => /\ calc.co2 = 50
       /\ calc.penalty = 1000
       /\ calc.ecoScore = 90
       /\ calc.ranking = "A"

\* C9, amended: 1 MiB, non-green: 0.50 g, penalty 10, ranking A, and
\* ecoScore 93 in index.js and part_000 (100 - 10 + 2.5 = 92.5, rounded),
\* 90 in analyze.js, whose score function adds no cleanerThan bonus.
C9_Score93 ==
  (calc.fn = "pipeline" /\ calc.bytes = MiB /\ ~calc.isGreen)
    => /\ calc.co2 = 50
       /\ calc.penalty = 1000
       /\ calc.ecoScore = (IF variant = "analyze" THEN 90 ELSE 93)
       /\ calc.ranking = "A"

C9_Witness ==
  calc.fn = "pipeline" /\ calc.bytes = MiB /\ ~calc.isGreen /\ calc.ecoScore = 93

\* the penalty of the claim, in hundredths of a point, for c hundredths of a gram
C10_Penalty(c) ==
  CASE c <= 50 -> c * 20
    [] c > 50 /\ c <= 100 -> 1000 + (c - 50) * 40
    [] c > 100 /\ c <= 200 -> 3000 + (c - 100) * 15
    [] c > 200 -> 4500 + (IF (c - 200) * 5 < 500 THEN (c - 200) * 5 ELSE 500)

\* round(clamp(x, 0, 100)) for x in hundredths of a point, halves rounded up
C10_RoundClamp(x100) ==
  LET clamped == IF x100 < 0 THEN 0 ELSE IF x100 > 10000 THEN 10000 ELSE x100
  IN (clamped + 50) \div 100

\* C10: for every gramsCO2PerView c (in steps of 0.01) and green flag g,
\* ecoScore = round(clamp(100 - penalty(c) + (10 if g) + 2.5, 0, 100)); a
\* 4 MiB page on green hosting scores 83 with ranking B.
C10_ScoreFormula ==
  /\ calc.fn = "score"
       => calc.ecoScore =
            C10_RoundClamp(10000 - C10_Penalty(calc.co2) + (IF calc.isGreen THEN 1000 ELSE 0) + 250)
  /\ (calc.fn = "pipeline" /\ calc.bytes = 4 * MiB /\ calc.isGreen)
       => calc.ecoScore = 83 /\ calc.ranking = "B"

\* C11: within one analysis the weight estimator issues the probe first and
\* exactly once; a probe that answers with a content length gives the result
\* and no full fetch is issued; the full fetch is issued at most once, and
\* only after the probe has failed or answered without a content length; no
\* external call is issued a second time.
C11_ProbeThenFetch ==
  \A r \in Sent :
       /\ r.calls.hosting <= 1 /\ r.calls.head <= 1 /\ r.calls.get <= 1
       /\ r.lookup # "none" => r.calls.head = 1
       /\ r.calls.get = 1 => (r.calls.head = 1 /\ r.head = "fallback")
       /\ r.head = "length"
            => /\ r.calls.get = 0
               /\ r.get = "none"
               /\ r.data # <<>>
               /\ r.data[1].pageWeight \in PageSizes

====
